---- MODULE Spec2Model ----
(***************************************************************************)
(* Model of src/lib/writer.ts: the streaming overwrite of a file with a    *)
(* byte pattern (FileWriter and its pattern subclasses), the checksum      *)
(* verification, and the property operations (rename, truncate).           *)
(*                                                                         *)
(* Every await of the source is a step boundary: an operation is a chain   *)
(* of actions, one per stretch of code that runs between two awaits.       *)
(* The Deno runtime calls (open, copy, iter, rename, truncate) are         *)
(* modelled by their documented behaviour on a one-directory file system.  *)
(* A Sha256 accumulator is modelled by the byte sequence fed to it so far: *)
(* two digests are equal exactly when the same bytes were fed.             *)
(***************************************************************************)
EXTENDS Integers, Sequences, FiniteSets, TLC

\* ------------------------------------------------------------------ bounds

\* Capacity of the copy buffer of Deno.copy and of the read buffer of
\* Deno.iter (32 KiB in the runtime), scaled down.
ChunkCap == 2

\* Largest size of the target file in the initial states.
MaxSize == 4

\* Number of calls the caller makes in one session.
MaxCalls == 4

\* Number of times another process modifies the file during a session.
MaxTamper == 1

\* Resolution of Math.random(): it returns k / RandomSteps, 0 <= k < RandomSteps.
RandomSteps == 4

\* ------------------------------------------------------------ value spaces

Min(a, b) == IF a <= b THEN a ELSE b

Max(a, b) == IF a >= b THEN a ELSE b

\* a / b cut to an integer toward zero, b > 0.
TruncDiv(a, b) == IF a >= 0 THEN a \div b ELSE -((-a) \div b)

\* Names of the one parent directory; path.join(path.dirname(p), name) keeps
\* the parent, so a path is modelled by its last component.
Names == {"f", "d", "u1", "u2", "u3"}

\* Values uuid.v4.generate() may return.
UuidNames == {"u1", "u2", "u3"}

\* new Date(): the instant the clock of the session shows, in milliseconds
\* since the epoch.
Now == 5

\* Instants a caller passes as date1 and date2 (Date.getTime() values);
\* new Date(0) and new Date() are the defaults.
Instants == {-3, 0, Now}

\* Values the random source (crypto.getRandomValues) may put in one byte.
RandomDraws == {17, 34}

\* Arguments passed to Byte.write and to ByteArray.write.
ByteArgs == {0, 65, 255}
ArrayArgs == {<<1, 2, 3>>, <<>>}

\* The content every file has before the program touches it.
OrigData(n) == [i \in 1..n |-> 90]

NoObj == [kind |-> "none"]
FileObj(d) == [kind |-> "file", data |-> d]
DirObj(e) == [kind |-> "dir", empty |-> e]

NoRec == [path |-> "none"]

\* ------------------------------------------------------- pure computations

\* Storing a number in a Uint8Array element keeps it modulo 2^8.
ToUint8(x) == x % 256

\* new Uint8Array(n): n zero bytes.
NewUint8Array(n) == [i \in 1..n |-> 0]

\* new hash.Sha256(): nothing fed yet.
NewSha256 == <<>>

\* checksum.update(chunk)
Sha256Update(sum, chunk) == sum \o chunk

\* checksum.hex()
Sha256Hex(sum) == sum

\* Variant: the whole buffer instead of its first `length` bytes.
Slice0Whole(p, length) == p

\* p.slice(0, length)
Slice0(p, length) == SubSeq(p, 1, length)

\* FileWriter.getValues: leaves the buffer as it is.
BaseGetValues(p) == p

\* Zero.getValues: p.fill(0x000000)
ZeroGetValues(p) == [i \in DOMAIN p |-> ToUint8(0)]

\* One.getValues: p.fill(0xFFFFFF)
OneGetValues(p) == [i \in DOMAIN p |-> ToUint8(16777215)]

\* Variant: only the first byte of the buffer is set.
ByteGetValuesFirst(byte, p) ==
  [i \in DOMAIN p |-> IF i = 1 THEN ToUint8(byte) ELSE p[i]]

\* The closure Byte.write installs: p.fill(byte)
ByteGetValues(byte, p) == [i \in DOMAIN p |-> ToUint8(byte)]

\* The closure ByteArray.write installs: p[i] = byteArray[i % length] for the
\* 0-based index i of the buffer; with length 0 the index is NaN, the element
\* undefined, and the byte stored is 0.
ByteArrayGetValues(byteArray, p) ==
  [i \in DOMAIN p |->
     IF Len(byteArray) = 0 THEN 0
     ELSE ToUint8(byteArray[((i - 1) % Len(byteArray)) + 1])]

\* RandomByte.getValues: one fresh random byte per call, p.fill(byte[0]).
RandomByteGetValues(p) ==
  {[i \in DOMAIN p |-> ToUint8(b)] : b \in RandomDraws}

\* Random.getValues: crypto.getRandomValues(p), every byte drawn on its own.
RandomGetValues(p) == [DOMAIN p -> RandomDraws]

\* A getValues function value: what `const { getValues } = this` yields.
GvZero == [kind |-> "Zero"]
GvOne == [kind |-> "One"]
GvRandom == [kind |-> "Random"]
GvRandomByte == [kind |-> "RandomByte"]
GvBase == [kind |-> "Base"]
GvByte(b) == [kind |-> "Byte", byte |-> b]
GvByteArray(a) == [kind |-> "ByteArray", byteArray |-> a]

\* The buffers a call getValues(p) may leave in p.
GetValues(gv, p) ==
  CASE gv.kind = "Zero" -> {ZeroGetValues(p)}
    [] gv.kind = "One" -> {OneGetValues(p)}
    [] gv.kind = "Byte" -> {ByteGetValues(gv.byte, p)}
    [] gv.kind = "ByteArray" -> {ByteArrayGetValues(gv.byteArray, p)}
    [] gv.kind = "RandomByte" -> RandomByteGetValues(p)
    [] gv.kind = "Random" -> RandomGetValues(p)
    [] OTHER -> {BaseGetValues(p)}

\* Variant: every request asks for a full buffer.
ReadLengthWhole(p, size) == Len(p)

\* const length = Math.min(p.byteLength, size)
ReadLength(p, size) == Min(Len(p), size)

\* dest.write(chunk) at file offset pos: overwrites in place, and extends the
\* file when the chunk reaches past its end (a gap before pos reads as zeros).
WriteAt(data, pos, chunk) ==
  [i \in 1..(IF pos + Len(chunk) > Len(data) THEN pos + Len(chunk) ELSE Len(data)) |->
     IF i > pos /\ i <= pos + Len(chunk) THEN chunk[i - pos]
     ELSE IF i <= Len(data) THEN data[i] ELSE 0]

\* ------------------------------------------------------------------- state

\* Target records a caller may hold (FileData objects).
Recs == {1, 2}

VARIABLES
  fs,       \* the parent directory: name -> object (file with data, directory)
  statics,  \* the own static property getValues of the classes Byte, ByteArray
  recs,     \* the FileData records: path, size, checksum, verifyChecksum
  drec,     \* the DirData record: path
  task,     \* per record, the operation in flight and its local variables
  ret,      \* per record, what the last finished call gave its caller
  dret,     \* what the last finished call on the directory gave its caller
  hist,     \* per record, the calls made since its init, in order
  obs,      \* per record, observations on the write in flight or last finished
  calls,    \* number of calls made in the session
  tampers,  \* number of modifications made by another process
  times     \* path -> access time and modification time of the object

vars ==
  <<fs, statics, recs, drec, task, ret, dret, hist, obs, calls, tampers, times>>

Idle ==
  [pc |-> "idle", op |-> "none", cls |-> "none", arg |-> 0, gv |-> GvBase,
   size |-> 0, b |-> <<>>, n |-> 0, pos |-> 0, vsum |-> <<>>, vpos |-> 0]

NoRet == [op |-> "none", val |-> "none"]

\* obs: cls, arg = class and argument of the last write call, prev = class of
\* the write call before it, len0 = byte
\* length of the file when it was called, armed = verifyChecksum when it was
\* called, size0 = the size field of the record when it was called, sum0 = the
\* checksum of the record when it was called,
\* written = the bytes it handed to dest.write so far, fed = number
\* of checksum.update calls it made, verifies = number of verifications that
\* writes started since the last verifyNext (both counted up to 2).
NoObs ==
  [cls |-> "none", arg |-> 0, prev |-> "none", len0 |-> 0, size0 |-> 0,
   sum0 |-> <<>>,
   armed |-> FALSE, written |-> <<>>,
   fed |-> 0, verifies |-> 0]

Cap2(n) == IF n >= 2 THEN 2 ELSE n

FileOf(r) == fs[recs[r].path]

\* One more call of the session.
Call(r, name) ==
  /\ calls < MaxCalls
  /\ calls' = calls + 1
  /\ hist' = [hist EXCEPT ![r] = Append(@, name)]

\* The times of an object the session has not set: those of its last write.
StartTimes == [atime |-> Now, mtime |-> Now]

\* The times after the content of the object at `path` was written.
Touched(path) == [times EXCEPT ![path].mtime = Now]

\* The times after Deno.rename(old, new): they go with the object.
RenamedTimes(old, new) ==
  IF new = old THEN times
  ELSE [times EXCEPT ![new] = times[old], ![old] = StartTimes]

\* The static method table: the getValues a class resolves to.
ClassGetValues(cls) ==
  CASE cls = "Zero" -> GvZero
    [] cls = "One" -> GvOne
    [] cls = "Random" -> GvRandom
    [] cls = "RandomByte" -> GvRandomByte
    [] cls = "Byte" -> statics.Byte
    [] cls = "ByteArray" -> statics.ByteArray
    [] OTHER -> GvBase

\* --------------------------------------------------------------- FileWriter

\* Variant: the record comes back with verification already requested.
InitRecordArmed(path, size) ==
  [path |-> path, size |-> size, checksum |-> NewSha256, verifyChecksum |-> TRUE]

\* The record FileWriter.init returns for a file of `size` bytes.
InitRecord(path, size) ==
  [path |-> path, size |-> size, checksum |-> NewSha256, verifyChecksum |-> FALSE]

\* FileWriter.init(path): Deno.stat, reject what is not a file, build the record.
init(r, path) ==
  /\ task[r].pc = "idle"
  /\ calls < MaxCalls
  /\ calls' = calls + 1
  /\ IF fs[path].kind # "file"
       THEN /\ ret' = [ret EXCEPT ![r] = [op |-> "init", val |-> "threw",
                                              path |-> path]]
            /\ UNCHANGED <<recs, obs, hist>>
       ELSE /\ recs' = [recs EXCEPT ![r] = InitRecord(path, Len(fs[path].data))]
            /\ ret' = [ret EXCEPT ![r] = [op |-> "init", val |-> "record",
                                              path |-> path]]
            /\ obs' = [obs EXCEPT ![r] = NoObs]
            /\ hist' = [hist EXCEPT ![r] = <<"init">>]
  /\ UNCHANGED <<fs, statics, drec, task, dret, tampers, times>>

\* FileWriter.verifyNext(fileData)
verifyNext(r) ==
  /\ task[r].pc = "idle"
  /\ recs[r] # NoRec
  /\ Call(r, "verifyNext")
  /\ recs' = [recs EXCEPT ![r].verifyChecksum = TRUE, ![r].checksum = NewSha256]
  /\ ret' = [ret EXCEPT ![r] = [op |-> "verifyNext", val |-> "undefined"]]
  /\ obs' = [obs EXCEPT ![r].verifies = 0]
  /\ UNCHANGED <<fs, statics, drec, task, dret, tampers, times>>

\* <Class>.write(fileData, data) up to the first await: the subclass installs
\* its closure (Byte, ByteArray), then FileWriter.write starts Deno.open.
write_call(r, cls, arg) ==
  /\ task[r].pc = "idle"
  /\ recs[r] # NoRec
  /\ Call(r, "write")
  /\ statics' = CASE cls = "Byte" -> [statics EXCEPT !.Byte = GvByte(arg)]
                  [] cls = "ByteArray" -> [statics EXCEPT !.ByteArray = GvByteArray(arg)]
                  [] OTHER -> statics
  /\ task' = [task EXCEPT ![r] = [Idle EXCEPT !.pc = "open", !.op = "write",
                                              !.cls = cls, !.arg = arg]]
  /\ ret' = [ret EXCEPT ![r] = NoRet]
  /\ obs' = [obs EXCEPT ![r].cls = cls, ![r].arg = arg,
                        ![r].prev = obs[r].cls,
                        ![r].len0 = IF FileOf(r).kind = "file"
                                      THEN Len(FileOf(r).data) ELSE 0,
                        ![r].size0 = recs[r].size,
                        ![r].sum0 = recs[r].checksum,
                        ![r].armed = recs[r].verifyChecksum,
                        ![r].written = <<>>, ![r].fed = 0]
  /\ UNCHANGED <<fs, recs, drec, dret, tampers, times>>

\* After Deno.open resolved: `const { getValues } = this; let { size } =
\* fileData;`, then Deno.copy allocates its buffer. Open rejects when the path
\* names no file.
write_opened(r) ==
  /\ task[r].pc = "open"
  /\ IF FileOf(r).kind # "file"
       THEN /\ task' = [task EXCEPT ![r] = Idle]
            /\ ret' = [ret EXCEPT ![r] = [op |-> "write", val |-> "threw"]]
       ELSE /\ task' = [task EXCEPT ![r].pc = "read",
                                    ![r].gv = ClassGetValues(task[r].cls),
                                    ![r].size = recs[r].size,
                                    ![r].b = NewUint8Array(ChunkCap),
                                    ![r].pos = 0]
            /\ UNCHANGED ret
  /\ UNCHANGED <<fs, statics, recs, drec, dret, hist, obs, calls, tampers,
                 times>>

\* Variant: the chunk is fed to the checksum whether or not verification is
\* requested.
ReadRecordAlways(fileData, p, length) ==
  [fileData EXCEPT !.checksum = Sha256Update(@, Slice0(p, length))]

\* Variant: the size field of the record itself is counted down.
ReadRecordSharedSize(fileData, p, length) ==
  IF fileData.verifyChecksum
    THEN [fileData EXCEPT !.checksum = Sha256Update(@, Slice0(p, length)),
                          !.size = @ - length]
    ELSE [fileData EXCEPT !.size = @ - length]

\* The record after src.read filled p and resolved `length`: the chunk is fed
\* to the checksum when verification is requested; `size -= length` acts on
\* the local copy of the size, not on the record.
ReadRecord(fileData, p, length) ==
  IF fileData.verifyChecksum
    THEN [fileData EXCEPT !.checksum = Sha256Update(@, Slice0(p, length))]
    ELSE fileData

\* src.read(p): one request of Deno.copy.
src_read(r) ==
  /\ task[r].pc = "read"
  /\ LET length == ReadLength(task[r].b, task[r].size)
     IN IF length = 0
          THEN /\ task' = [task EXCEPT ![r].pc = "end"]
               /\ UNCHANGED <<recs, obs>>
          ELSE \E p \in GetValues(task[r].gv, task[r].b) :
                 /\ task' = [task EXCEPT ![r].pc = "write", ![r].b = p,
                                         ![r].n = length,
                                         ![r].size = task[r].size - length]
                 /\ recs' = [recs EXCEPT ![r] = ReadRecord(recs[r], p, length)]
                 /\ obs' = [obs EXCEPT ![r].fed =
                                IF recs[r].verifyChecksum THEN Cap2(@ + 1) ELSE @]
  /\ UNCHANGED <<fs, statics, drec, ret, dret, hist, calls, tampers, times>>

\* dest.write(b.subarray(0, result)) of Deno.copy.
dest_write(r) ==
  /\ task[r].pc = "write"
  /\ FileOf(r).kind = "file"
  /\ LET chunk == SubSeq(task[r].b, 1, task[r].n)
     IN /\ fs' = [fs EXCEPT ![recs[r].path] =
                    FileObj(WriteAt(FileOf(r).data, task[r].pos, chunk))]
        /\ task' = [task EXCEPT ![r].pc = "read", ![r].pos = task[r].pos + task[r].n]
        /\ obs' = [obs EXCEPT ![r].written = @ \o chunk]
        /\ times' = Touched(recs[r].path)
  /\ UNCHANGED <<statics, recs, drec, ret, dret, hist, calls, tampers>>

\* Variant: the flag is left set.
KeepFlag(fileData) == fileData

\* The record write leaves when it goes on to verify: the flag is cleared.
ClearFlag(fileData) == [fileData EXCEPT !.verifyChecksum = FALSE]

\* What write gives its caller: it has no return statement, and the value
\* verify returned to it (`verified`) is dropped.
WriteResult(verified) == "undefined"

\* After Deno.copy resolved: dest.close(), then the verification if requested.
write_end(r) ==
  /\ task[r].pc = "end"
  /\ IF recs[r].verifyChecksum
       THEN /\ recs' = [recs EXCEPT ![r] = ClearFlag(recs[r])]
            /\ task' = [task EXCEPT ![r].pc = "vopen"]
            /\ obs' = [obs EXCEPT ![r].verifies = Cap2(@ + 1)]
            /\ UNCHANGED ret
       ELSE /\ ret' = [ret EXCEPT ![r] =
                         [op |-> "write", val |-> WriteResult("none"),
                          verified |-> "none", left |-> task[r].size]]
            /\ task' = [task EXCEPT ![r] = Idle]
            /\ UNCHANGED <<recs, obs>>
  /\ UNCHANGED <<fs, statics, drec, dret, hist, calls, tampers, times>>

\* FileWriter.verify(fileData) called by the caller itself.
verify_call(r) ==
  /\ task[r].pc = "idle"
  /\ recs[r] # NoRec
  /\ Call(r, "verify")
  /\ task' = [task EXCEPT ![r] = [Idle EXCEPT !.pc = "vopen", !.op = "verify"]]
  /\ ret' = [ret EXCEPT ![r] = NoRet]
  /\ UNCHANGED <<fs, statics, recs, drec, dret, obs, tampers, times>>

\* Variant: the pass goes on with the accumulator of the record.
VerifyAccumulatorShared(fileData) == fileData.checksum

\* const checksum = new hash.Sha256() in verify: the accumulator of the pass.
VerifyAccumulator(fileData) == NewSha256

\* After Deno.open of verify resolved: a new Sha256 for this pass.
verify_opened(r) ==
  /\ task[r].pc = "vopen"
  /\ IF FileOf(r).kind # "file"
       THEN /\ task' = [task EXCEPT ![r] = Idle]
            /\ ret' = [ret EXCEPT ![r] = [op |-> task[r].op, val |-> "threw"]]
       ELSE /\ task' = [task EXCEPT ![r].pc = "viter", ![r].vsum = VerifyAccumulator(recs[r]),
                                    ![r].vpos = 0]
            /\ UNCHANGED ret
  /\ UNCHANGED <<fs, statics, recs, drec, dret, hist, obs, calls, tampers,
                 times>>

\* The next chunk Deno.iter yields: up to ChunkCap bytes from the read offset.
IterChunk(data, vpos) == SubSeq(data, vpos + 1, Min(vpos + ChunkCap, Len(data)))

\* One round of `for await (const chunk of Deno.iter(src))`.
verify_iter(r) ==
  /\ task[r].pc = "viter"
  /\ FileOf(r).kind = "file"
  /\ LET chunk == IterChunk(FileOf(r).data, task[r].vpos)
     IN /\ Len(chunk) > 0
        /\ task' = [task EXCEPT ![r].vsum = Sha256Update(@, chunk),
                                ![r].vpos = @ + Len(chunk)]
  /\ UNCHANGED <<fs, statics, recs, drec, ret, dret, hist, obs, calls,
                 tampers, times>>

\* Variant: the digest of the record is compared with itself.
VerifyResultSelf(fileData, checksum) ==
  IF Sha256Hex(fileData.checksum) # Sha256Hex(fileData.checksum)
    THEN "Invalid checksum" ELSE "undefined"

\* The value verify returns: an Error object on a mismatch, else undefined.
VerifyResult(fileData, checksum) ==
  IF Sha256Hex(fileData.checksum) # Sha256Hex(checksum)
    THEN "Invalid checksum" ELSE "undefined"

\* End of file in verify: src.close(), compare, return; when write called
\* verify, write then returns.
verify_end(r) ==
  /\ task[r].pc = "viter"
  /\ FileOf(r).kind = "file"
  /\ Len(IterChunk(FileOf(r).data, task[r].vpos)) = 0
  /\ LET v == VerifyResult(recs[r], task[r].vsum)
     IN ret' = [ret EXCEPT ![r] =
                  IF task[r].op = "write"
                    THEN [op |-> "write", val |-> WriteResult(v), verified |-> v,
                          left |-> task[r].size]
                    ELSE [op |-> "verify", val |-> v]]
  /\ task' = [task EXCEPT ![r] = Idle]
  /\ UNCHANGED <<fs, statics, recs, drec, dret, hist, obs, calls, tampers,
                 times>>

\* ----------------------------------------------------------- FileProperties

\* Variant: rounded up instead of down.
TruncateSizeCeil(k, size) ==
  (size * (RandomSteps + 2 * k) + 4 * RandomSteps - 1) \div (4 * RandomSteps)

\* Math.floor((0.25 + Math.random() * 0.5) * size), Math.random() = k / RandomSteps:
\* the factor is (RandomSteps + 2k) / (4 RandomSteps).
TruncateSize(k, size) == (size * (RandomSteps + 2 * k)) \div (4 * RandomSteps)

\* Deno.truncate(path, len): keeps the first len bytes, pads with zeros when
\* the file is shorter.
Truncated(data, len) == [i \in 1..len |-> IF i <= Len(data) THEN data[i] ELSE 0]

\* Variant: the record keeps the size it had.
TruncateRecordStale(fileData, newSize) == fileData

\* fileData.size = newSize
TruncateRecord(fileData, newSize) == [fileData EXCEPT !.size = newSize]

\* FileProperties.truncate(fileData)
truncate(r, k) ==
  /\ task[r].pc = "idle"
  /\ recs[r] # NoRec
  /\ Call(r, "truncate")
  /\ LET newSize == TruncateSize(k, recs[r].size)
     IN IF FileOf(r).kind # "file"
          THEN /\ ret' = [ret EXCEPT ![r] = [op |-> "truncate", val |-> "threw"]]
               /\ UNCHANGED <<fs, recs, times>>
          ELSE /\ fs' = [fs EXCEPT ![recs[r].path] =
                           FileObj(Truncated(FileOf(r).data, newSize))]
               /\ times' = Touched(recs[r].path)
               /\ recs' = [recs EXCEPT ![r] = TruncateRecord(recs[r], newSize)]
               /\ ret' = [ret EXCEPT ![r] =
                            [op |-> "truncate", val |-> "undefined",
                             originalSize |-> recs[r].size, newSize |-> newSize]]
  /\ UNCHANGED <<statics, drec, task, dret, obs, tampers>>

\* How Deno.rename(oldpath, newpath) may end. An existing file at newpath is
\* replaced by a file; a directory never replaces a file nor a file a
\* directory; a directory replaces an empty directory on POSIX systems and is
\* refused on Windows.
RenameOutcomes(old, new) ==
  CASE fs[old].kind = "none" -> {"threw"}
    [] fs[old].kind # "none" /\ new = old -> {"ok"}
    [] fs[old].kind # "none" /\ new # old /\ fs[new].kind = "none" -> {"ok"}
    [] fs[old].kind = "file" /\ new # old /\ fs[new].kind = "file" -> {"ok"}
    [] fs[old].kind = "dir" /\ new # old /\ fs[new].kind = "dir" /\ fs[new].empty ->
         {"ok", "threw"}
    [] OTHER -> {"threw"}

\* The directory after a rename that went through.
Renamed(old, new) ==
  IF new = old THEN fs ELSE [fs EXCEPT ![old] = NoObj, ![new] = fs[old]]

\* What the session notes of a rename call: the paths, whether the new path
\* named another existing object when rename was called, the object the new
\* path named and the object the old path named.
RenameRet(val, old, new) ==
  [op |-> "rename", val |-> val, from |-> old, to |-> new,
   hit |-> (new # old /\ fs[new].kind # "none"), dest |-> fs[new],
   obj |-> fs[old]]

\* FileProperties.rename(fileData): newName is the uuid drawn.
rename(r, newName) ==
  /\ task[r].pc = "idle"
  /\ recs[r] # NoRec
  /\ Call(r, "rename")
  /\ \E out \in RenameOutcomes(recs[r].path, newName) :
       /\ ret' = [ret EXCEPT ![r] = RenameRet(out, recs[r].path, newName)]
       /\ IF out = "ok"
            THEN /\ fs' = Renamed(recs[r].path, newName)
                 /\ times' = RenamedTimes(recs[r].path, newName)
                 /\ recs' = [recs EXCEPT ![r].path = newName]
            ELSE UNCHANGED <<fs, recs, times>>
  /\ UNCHANGED <<statics, drec, task, dret, obs, tampers>>

\* ----------------------------------- DirectoryWriter, DirectoryProperties

\* DirectoryWriter.init(path)
dir_init(path) ==
  /\ calls < MaxCalls
  /\ calls' = calls + 1
  /\ IF fs[path].kind # "dir"
       THEN /\ dret' = [op |-> "init", val |-> "threw", path |-> path]
            /\ UNCHANGED drec
       ELSE /\ drec' = [path |-> path]
            /\ dret' = [op |-> "init", val |-> "record", path |-> path]
  /\ UNCHANGED <<fs, statics, recs, task, ret, hist, obs, tampers, times>>

\* DirectoryProperties.rename(dirData)
dir_rename(newName) ==
  /\ drec # NoRec
  /\ calls < MaxCalls
  /\ calls' = calls + 1
  /\ \E out \in RenameOutcomes(drec.path, newName) :
       /\ dret' = RenameRet(out, drec.path, newName)
       /\ IF out = "ok"
            THEN /\ fs' = Renamed(drec.path, newName)
                 /\ times' = RenamedTimes(drec.path, newName)
                 /\ drec' = [path |-> newName]
            ELSE UNCHANGED <<fs, drec, times>>
  /\ UNCHANGED <<statics, recs, task, ret, hist, obs, tampers>>

\* ------------------------------------------------------------- timestamps

\* Variant: the lower end is not added.
RandomValueBetweenNoMin(min, max, k) == k * (max - min)

\* randomValueBetween(min, max) = Math.random() * (max - min) + min with
\* Math.random() = k / RandomSteps. The value is a fraction: the operator
\* gives its numerator over RandomSteps.
RandomValueBetween(min, max, k) == k * (max - min) + RandomSteps * min

\* new Date(value).getTime() for a value given as a numerator over
\* RandomSteps: the time value of a Date is the number cut to an integer.
NewDate(x) == TruncDiv(x, RandomSteps)

\* Deno.utime(path, atime, mtime)
Utime(path, atime, mtime) ==
  [times EXCEPT ![path] = [atime |-> atime, mtime |-> mtime]]

\* FileProperties.resetTimestamps(fileData)
resetTimestamps(r) ==
  /\ task[r].pc = "idle"
  /\ recs[r] # NoRec
  /\ Call(r, "resetTimestamps")
  /\ IF FileOf(r).kind = "none"
       THEN /\ ret' = [ret EXCEPT ![r] =
                         [op |-> "resetTimestamps", val |-> "threw"]]
            /\ UNCHANGED times
       ELSE /\ times' = Utime(recs[r].path, 0, 0)
            /\ ret' = [ret EXCEPT ![r] =
                         [op |-> "resetTimestamps", val |-> "undefined"]]
  /\ UNCHANGED <<fs, statics, recs, drec, task, dret, obs, tampers>>

\* FileProperties.changeTimestamps(fileData, { date1, date2 }): k is the
\* draw of Math.random().
changeTimestamps(r, date1, date2, k) ==
  /\ task[r].pc = "idle"
  /\ recs[r] # NoRec
  /\ Call(r, "changeTimestamps")
  /\ LET date == NewDate(RandomValueBetween(date2, date1, k))
     IN IF FileOf(r).kind = "none"
          THEN /\ ret' = [ret EXCEPT ![r] =
                            [op |-> "changeTimestamps", val |-> "threw",
                             date1 |-> date1, date2 |-> date2]]
               /\ UNCHANGED times
          ELSE /\ times' = Utime(recs[r].path, date, date)
               /\ ret' = [ret EXCEPT ![r] =
                            [op |-> "changeTimestamps", val |-> "undefined",
                             date1 |-> date1, date2 |-> date2]]
  /\ UNCHANGED <<fs, statics, recs, drec, task, dret, obs, tampers>>

\* DirectoryProperties.resetTimestamps(dirData)
dir_resetTimestamps ==
  /\ drec # NoRec
  /\ calls < MaxCalls
  /\ calls' = calls + 1
  /\ IF fs[drec.path].kind = "none"
       THEN /\ dret' = [op |-> "resetTimestamps", val |-> "threw"]
            /\ UNCHANGED times
       ELSE /\ times' = Utime(drec.path, 0, 0)
            /\ dret' = [op |-> "resetTimestamps", val |-> "undefined"]
  /\ UNCHANGED <<fs, statics, recs, drec, task, ret, hist, obs, tampers>>

\* DirectoryProperties.changeTimestamps(dirData, { date1, date2 })
dir_changeTimestamps(date1, date2, k) ==
  /\ drec # NoRec
  /\ calls < MaxCalls
  /\ calls' = calls + 1
  /\ LET date == NewDate(RandomValueBetween(date2, date1, k))
     IN IF fs[drec.path].kind = "none"
          THEN /\ dret' = [op |-> "changeTimestamps", val |-> "threw",
                           date1 |-> date1, date2 |-> date2]
               /\ UNCHANGED times
          ELSE /\ times' = Utime(drec.path, date, date)
               /\ dret' = [op |-> "changeTimestamps", val |-> "undefined",
                           date1 |-> date1, date2 |-> date2]
  /\ UNCHANGED <<fs, statics, recs, drec, task, ret, hist, obs, tampers>>

\* ------------------------------------------------------------ other processes

\* What another process may make of the file: one byte changed, one byte
\* appended, or the last byte cut off.
TamperedData(data) ==
  ({[data EXCEPT ![i] = 99] : i \in 1..Len(data)} \cup {Append(data, 99)}
     \cup {SubSeq(data, 1, Len(data) - 1)}) \ {data}

\* Another process modifies the file `name`. The sessions on that file note
\* it: "tamper" between two calls, "tamper*" while a call is in flight.
tamper(name) ==
  /\ tampers < MaxTamper
  /\ tampers' = tampers + 1
  /\ fs[name].kind = "file"
  /\ \E d \in TamperedData(fs[name].data) : fs' = [fs EXCEPT ![name] = FileObj(d)]
  /\ times' = Touched(name)
  /\ hist' = [r \in Recs |->
                IF recs[r] # NoRec /\ recs[r].path = name
                  THEN Append(hist[r], IF task[r].pc = "idle" THEN "tamper" ELSE "tamper*")
                  ELSE hist[r]]
  /\ UNCHANGED <<statics, recs, drec, task, ret, dret, obs, calls>>

\* ----------------------------------------------------------- specification

\* The pattern classes and the argument each write call passes.
Calls ==
  {<<"Zero", 0>>, <<"One", 0>>, <<"Random", 0>>, <<"RandomByte", 0>>}
    \cup {<<"Byte", x>> : x \in ByteArgs}
    \cup {<<"ByteArray", a>> : a \in ArrayArgs}

InitFs(n, e) ==
  [x \in Names |->
     CASE x = "f" -> FileObj(OrigData(n))
       [] x = "d" -> DirObj(TRUE)
       [] x = "u1" -> FileObj(OrigData(1))
       [] x = "u2" -> DirObj(e)
       [] OTHER -> NoObj]

InitCommon ==
  /\ statics = [Byte |-> GvBase, ByteArray |-> GvBase]
  /\ recs = [r \in Recs |-> NoRec]
  /\ drec = NoRec
  /\ task = [r \in Recs |-> Idle]
  /\ ret = [r \in Recs |-> NoRet]
  /\ dret = NoRet
  /\ hist = [r \in Recs |-> <<>>]
  /\ obs = [r \in Recs |-> NoObs]
  /\ calls = 0
  /\ tampers = 0
  /\ times = [x \in Names |-> StartTimes]

Init ==
  /\ \E n \in 0..MaxSize : fs = InitFs(n, TRUE)
  /\ InitCommon

\* The steps of the operation in flight on record r.
Steps(r) ==
  \/ write_opened(r)
  \/ src_read(r)
  \/ dest_write(r)
  \/ write_end(r)
  \/ verify_opened(r)
  \/ verify_iter(r)
  \/ verify_end(r)

\* One sanitization session on the file "f", every call awaited in turn:
\* overwrite passes and verification.
Next ==
  \/ \E path \in {"f", "d"} : init(1, path)
  \/ verifyNext(1)
  \/ \E c \in Calls : write_call(1, c[1], c[2])
  \/ verify_call(1)
  \/ Steps(1)

Spec == Init /\ [][Next]_vars

\* The same session while another process modifies the file.
CallsTamper == {<<"Zero", 0>>, <<"ByteArray", <<1, 2, 3>> >>}

NextTamper ==
  \/ init(1, "f")
  \/ verifyNext(1)
  \/ \E c \in CallsTamper : write_call(1, c[1], c[2])
  \/ verify_call(1)
  \/ Steps(1)
  \/ tamper("f")

SpecTamper == Init /\ [][NextTamper]_vars

\* A session that randomizes the properties of the file "f" and of the
\* directory "d", in a parent directory that holds another file and another
\* directory under names a uuid may collide with.
InitProps ==
  /\ \E n \in 0..MaxSize, e \in BOOLEAN : fs = InitFs(n, e)
  /\ InitCommon

NextProps ==
  \/ \E path \in {"f", "d", "u3"} : init(1, path)
  \/ \E path \in {"f", "d"} : dir_init(path)
  \/ \E k \in 0..(RandomSteps - 1) : truncate(1, k)
  \/ \E u \in UuidNames : rename(1, u)
  \/ \E u \in UuidNames : dir_rename(u)
  \/ verifyNext(1)
  \/ \E cls \in {"Zero", "One"} : write_call(1, cls, 0)
  \/ verify_call(1)
  \/ Steps(1)

SpecProps == InitProps /\ [][NextProps]_vars

\* Two sessions at once, on the files "f" and "u1": the caller starts a write
\* on one file without awaiting the write it started on the other. The
\* patterns are those that take an argument.
CallsConc ==
  {<<"Byte", 65>>, <<"Byte", 255>>, <<"ByteArray", <<1, 2, 3>> >>,
   <<"ByteArray", <<7>> >>}

NextConc ==
  \/ init(1, "f")
  \/ init(2, "u1")
  \/ \E r \in Recs, c \in CallsConc : write_call(r, c[1], c[2])
  \/ \E r \in Recs : write_opened(r)
  \/ \E r \in Recs : src_read(r)
  \/ \E r \in Recs : dest_write(r)
  \/ \E r \in Recs : write_end(r)

SpecConc == Init /\ [][NextConc]_vars

\* A session that sets the timestamps of the file "f" and of the directory
\* "d", before and after an overwrite pass and a rename.
NextTimes ==
  \/ init(1, "f")
  \/ dir_init("d")
  \/ resetTimestamps(1)
  \/ \E date1, date2 \in Instants, k \in 0..(RandomSteps - 1) :
       changeTimestamps(1, date1, date2, k)
  \/ dir_resetTimestamps
  \/ \E date1, date2 \in Instants, k \in 0..(RandomSteps - 1) :
       dir_changeTimestamps(date1, date2, k)
  \/ \E u \in UuidNames : rename(1, u)
  \/ write_call(1, "Zero", 0)
  \/ write_opened(1)
  \/ src_read(1)
  \/ dest_write(1)
  \/ write_end(1)

SpecTimes == InitProps /\ [][NextTimes]_vars

\* ------------------------------------------------------------------ claims

\* The last calls of the session on record r are `tail`, in this order.
LastCalls(r, tail) ==
  /\ Len(hist[r]) >= Len(tail)
  /\ SubSeq(hist[r], Len(hist[r]) - Len(tail) + 1, Len(hist[r])) = tail

\* A write on record r has returned to its caller and nothing was called since.
WriteReturned(r) ==
  /\ task[r].pc = "idle"
  /\ ret[r].op = "write"
  /\ ret[r].val # "threw"

\* Number of write calls after the last verifyNext of the session (-1 when
\* verifyNext was never called).
RECURSIVE WritesSince(_)
WritesSince(h) ==
  IF h = <<>> THEN -1
  ELSE IF h[Len(h)] = "verifyNext" THEN 0
  ELSE LET k == WritesSince(SubSeq(h, 1, Len(h) - 1))
       IN IF k >= 0 /\ h[Len(h)] = "write" THEN k + 1 ELSE k

\* The byte a constant-fill pattern stands for.
PatternByte(cls, arg) ==
  CASE cls = "Zero" -> 0
    [] cls = "One" -> 255
    [] OTHER -> arg

\* C1: after a write with Zero, One or Byte(b) returned, the file has the
\* byte length it had when write was called and every byte is 0x00, 0xFF or b.
C1_ConstantFill ==
  \A r \in Recs :
    (WriteReturned(r) /\ obs[r].cls \in {"Zero", "One", "Byte"}) =>
      /\ FileOf(r).kind = "file"
      /\ Len(FileOf(r).data) = obs[r].len0
      /\ \A i \in 1..Len(FileOf(r).data) :
           FileOf(r).data[i] = PatternByte(obs[r].cls, obs[r].arg)

\* A Byte(65) write returned on a file of two chunks, the last one short.
C1_Witness ==
  /\ WriteReturned(1)
  /\ obs[1].cls = "Byte" /\ obs[1].arg = 65
  /\ obs[1].len0 = ChunkCap + 1
  /\ Len(FileOf(1).data) = ChunkCap + 1

\* C2 (as claimed): after a ByteArray write with a non-empty pattern the byte
\* at every file offset i is pattern[i mod length(pattern)], i counted over
\* the whole file.
C2_CumulativeIndex ==
  \A r \in Recs :
    (WriteReturned(r) /\ obs[r].cls = "ByteArray" /\ Len(obs[r].arg) > 0) =>
      /\ Len(FileOf(r).data) = obs[r].len0
      /\ \A i \in 0..(Len(FileOf(r).data) - 1) :
           FileOf(r).data[i + 1] = obs[r].arg[(i % Len(obs[r].arg)) + 1]

\* C3 (as claimed): after a RandomByte write returned, all bytes of the file
\* hold the same value.
C3_OneByteForAllChunks ==
  \A r \in Recs :
    (WriteReturned(r) /\ obs[r].cls = "RandomByte") =>
      \A i, j \in 1..Len(FileOf(r).data) : FileOf(r).data[i] = FileOf(r).data[j]

\* C4 (as claimed): after a write returned, the size field of the record is 0.
C4_RecordSizeZero ==
  \A r \in Recs : WriteReturned(r) => recs[r].size = 0

\* C4 (amended): after a write returned, the remaining counter of that write
\* (its local copy of the size) is 0 and the size field of the record is what
\* it was when write was called.
C4_LocalCounterZero ==
  \A r \in Recs :
    WriteReturned(r) => (ret[r].left = 0 /\ recs[r].size = obs[r].size0)

\* A write returned on a record whose size field is more than one chunk.
C4_Witness ==
  /\ WriteReturned(1)
  /\ obs[1].size0 = ChunkCap + 1
  /\ ret[1].left = 0

\* C5: verifyNext, then write: the verification at the end of the write finds
\* the digest of the file equal to the digest accumulated during the write,
\* and so does a verify called right after.
C5_RoundTrip ==
  \A r \in Recs :
    /\ (WriteReturned(r) /\ LastCalls(r, <<"verifyNext", "write">>)) =>
         ret[r].verified = "undefined"
    /\ (task[r].pc = "idle" /\ ret[r].op = "verify"
          /\ LastCalls(r, <<"verifyNext", "write", "verify">>)) =>
         ret[r].val = "undefined"

\* verifyNext, a Random write over two chunks with a short last one, verify.
C5_Witness ==
  /\ task[1].pc = "idle" /\ ret[1].op = "verify" /\ ret[1].val = "undefined"
  /\ LastCalls(1, <<"verifyNext", "write", "verify">>)
  /\ obs[1].cls = "Random"
  /\ obs[1].len0 = ChunkCap + 1

\* C8: once a write called after verifyNext has returned, writes have started
\* exactly one verification since that verifyNext and the flag is false; the
\* verification starts in the first of those writes, after its last chunk; a
\* later write feeds nothing to the checksum and starts no verification.
C8_OneShot ==
  \A r \in Recs :
    LET k == WritesSince(hist[r])
        verifying == task[r].op = "write" /\ task[r].pc \in {"vopen", "viter"}
    IN /\ (k >= 1 /\ task[r].pc = "idle") =>
            (obs[r].verifies = 1 /\ ~recs[r].verifyChecksum)
       /\ verifying =>
            (k = 1 /\ task[r].size = 0 /\ Len(obs[r].written) = obs[r].size0
               /\ ~recs[r].verifyChecksum)
       /\ k >= 2 => (obs[r].verifies = 1 /\ obs[r].fed = 0 /\ ~verifying)

\* verifyNext, then two writes that both returned.
C8_Witness ==
  /\ task[1].pc = "idle"
  /\ hist[1] = <<"init", "verifyNext", "write", "write">>
  /\ ret[1].op = "write"
  /\ obs[1].verifies = 1
  /\ obs[1].len0 = ChunkCap + 1

\* Number of modifications by another process the session on r has seen.
RECURSIVE Tampers(_)
Tampers(h) ==
  IF h = <<>> THEN 0
  ELSE Tampers(SubSeq(h, 1, Len(h) - 1))
         + (IF h[Len(h)] \in {"tamper", "tamper*"} THEN 1 ELSE 0)

\* C6: verifyNext, a write that returned, then verify called by the caller:
\* when another process changed the file (a byte or its length) between the
\* return of write and the call of verify, and at no other time, verify
\* returns the checksum error; when no process changed the file, it returns
\* undefined.
C6_TamperDetected ==
  \A r \in Recs :
    (task[r].pc = "idle" /\ ret[r].op = "verify") =>
      /\ (Tampers(hist[r]) = 1
            /\ LastCalls(r, <<"verifyNext", "write", "tamper", "verify">>)) =>
           ret[r].val = "Invalid checksum"
      /\ (Tampers(hist[r]) = 0
            /\ LastCalls(r, <<"verifyNext", "write", "verify">>)) =>
           ret[r].val = "undefined"

\* verifyNext, a write over two chunks, a modification, verify reports it.
C6_Witness ==
  /\ task[1].pc = "idle" /\ ret[1].op = "verify"
  /\ ret[1].val = "Invalid checksum"
  /\ hist[1] = <<"init", "verifyNext", "write", "tamper", "verify">>
  /\ obs[1].len0 = ChunkCap + 1

\* C7 (as claimed): when the verification at the end of a write finds the
\* digests different, the caller of write receives the checksum error (or an
\* exception), never a plain return.
C7_MismatchReachesCaller ==
  \A r \in Recs :
    (task[r].pc = "idle" /\ ret[r].op = "write" /\ ret[r].val # "threw"
       /\ ret[r].verified = "Invalid checksum") =>
      ret[r].val = "Invalid checksum"

\* C9 (as claimed): truncate of a record of size originalSize > 0 gives
\* 0.25 originalSize <= newSize < 0.75 originalSize, and newSize is the byte
\* length of the file and the size field of the record.
C9_QuarterToThreeQuarters ==
  \A r \in Recs :
    (task[r].pc = "idle" /\ ret[r].op = "truncate" /\ ret[r].val = "undefined"
       /\ ret[r].originalSize > 0) =>
      /\ 4 * ret[r].newSize >= ret[r].originalSize
      /\ 4 * ret[r].newSize < 3 * ret[r].originalSize
      /\ Len(FileOf(r).data) = ret[r].newSize
      /\ recs[r].size = ret[r].newSize

\* C9 (amended): floor(0.25 originalSize) <= newSize < 0.75 originalSize, and
\* newSize is the byte length of the file and the size field of the record.
C9_FloorOfQuarter ==
  \A r \in Recs :
    (task[r].pc = "idle" /\ ret[r].op = "truncate" /\ ret[r].val = "undefined"
       /\ ret[r].originalSize > 0) =>
      /\ ret[r].newSize >= ret[r].originalSize \div 4
      /\ 4 * ret[r].newSize < 3 * ret[r].originalSize
      /\ Len(FileOf(r).data) = ret[r].newSize
      /\ recs[r].size = ret[r].newSize

\* truncate of the largest file, to a size that is not 0.
C9_Witness ==
  /\ task[1].pc = "idle" /\ ret[1].op = "truncate" /\ ret[1].val = "undefined"
  /\ ret[1].originalSize = MaxSize
  /\ ret[1].newSize >= 1
  /\ Len(FileOf(1).data) = ret[1].newSize

\* What C10 asks of a finished rename whose new path named another object.
ConflictRefused(out, path) ==
  out.hit => (out.val = "threw" /\ path = out.from /\ fs[out.to] = out.dest
                /\ fs[out.from].kind # "none")

\* C10 (as claimed): when the new path of a rename names an existing object,
\* rename fails: the object is not replaced, the target stays at its old path
\* and the path of the record is unchanged.
C10_RenameConflict ==
  /\ \A r \in Recs :
       (task[r].pc = "idle" /\ ret[r].op = "rename") =>
         ConflictRefused(ret[r], recs[r].path)
  /\ dret.op = "rename" => ConflictRefused(dret, drec.path)

\* What C11 asks of a rename that went through: the path of the record is the
\* new path, it differs from the old one, the old path names nothing and the
\* new path names the object the old path named, unchanged.
RenameMoved(out, path) ==
  out.val = "ok" =>
    (path = out.to /\ path # out.from /\ fs[out.from].kind = "none"
       /\ fs[path] = out.obj)

\* C11 (as claimed): after a successful rename of a file or of a directory
\* the path of the record is a new path distinct from the original, the
\* original path names no object and the new path names the same object with
\* the same content.
C11_RenameMoves ==
  /\ \A r \in Recs :
       (task[r].pc = "idle" /\ ret[r].op = "rename") =>
         RenameMoved(ret[r], recs[r].path)
  /\ dret.op = "rename" => RenameMoved(dret, drec.path)

\* C12 (as claimed): a ByteArray write with an empty pattern hands no byte to
\* the file and ends with an error for its caller.
C12_EmptyPatternRejected ==
  \A r \in Recs :
    (obs[r].cls = "ByteArray" /\ Len(obs[r].arg) = 0) =>
      /\ obs[r].written = <<>>
      /\ (task[r].pc = "idle" /\ ret[r].op = "write") => ret[r].val = "threw"

\* A step that is a call of FileWriter.init on record r.
InitStep(r) ==
  /\ calls' = calls + 1
  /\ ret'[r].op = "init"
  /\ task' = task /\ dret' = dret /\ drec' = drec

\* A step that is a call of DirectoryWriter.init.
DirInitStep ==
  /\ calls' = calls + 1
  /\ dret'.op = "init"
  /\ task' = task /\ ret' = ret /\ recs' = recs

\* C13: FileWriter.init fails exactly when the path does not name a file and
\* then gives no record; DirectoryWriter.init fails exactly when the path does
\* not name a directory and then gives no record; the record of a successful
\* FileWriter.init holds the path, the byte length of the file at that moment,
\* an empty checksum and verifyChecksum false; neither call changes any file.
C13_Probe ==
  [][/\ \A r \in Recs :
          InitStep(r) =>
            LET path == ret'[r].path
            IN /\ fs' = fs
               /\ (ret'[r].val = "threw") = (fs[path].kind # "file")
               /\ ret'[r].val = "threw" => recs' = recs
               /\ ret'[r].val # "threw" =>
                    /\ ret'[r].val = "record"
                    /\ recs'[r] = [path |-> path,
                                   size |-> Len(fs[path].data),
                                   checksum |-> <<>>,
                                   verifyChecksum |-> FALSE]
     /\ DirInitStep =>
          /\ fs' = fs
          /\ (dret'.val = "threw") = (fs[dret'.path].kind # "dir")
          /\ dret'.val = "threw" => drec' = drec
          /\ dret'.val # "threw" =>
               (dret'.val = "record" /\ drec' = [path |-> dret'.path])]_vars

\* C13 happens: after the probe of a file of several bytes gave a record,
\* FileWriter.init refused a directory and DirectoryWriter.init refused a file.
C13_Witness ==
  /\ ret[1].op = "init" /\ ret[1].val = "threw"
  /\ fs[ret[1].path].kind = "dir"
  /\ recs[1] # NoRec /\ recs[1].size > 1
  /\ dret.op = "init" /\ dret.val = "threw" /\ fs[dret.path].kind = "file"

\* A write on record r is past Deno.open and has not returned.
Writing(r) == task[r].op = "write" /\ task[r].pc \notin {"idle", "open"}

\* The chunk src.read resolved that dest.write has not taken yet.
Pending(r) ==
  IF task[r].pc = "write" THEN SubSeq(task[r].b, 1, task[r].n) ELSE <<>>

\* C14: during a write the local size counter is never negative; the chunk
\* handed to dest.write is not empty and as long as the smaller of the buffer
\* capacity and the counter before it; the counter and the chunks taken so far
\* add up to the size the record held when write was called; Deno.copy stops
\* when the counter is 0, and the chunks of a write that returned add up to
\* that size.
C14_Counter ==
  \A r \in Recs :
    /\ Writing(r) =>
         /\ task[r].size >= 0
         /\ Len(obs[r].written) + Len(Pending(r)) + task[r].size = obs[r].size0
         /\ task[r].pc = "write" =>
              /\ task[r].n > 0
              /\ task[r].n = Min(ChunkCap, task[r].size + task[r].n)
         /\ task[r].pc \notin {"read", "write"} => task[r].size = 0
    /\ WriteReturned(r) => Len(obs[r].written) = obs[r].size0

\* C14 happens: the second chunk of a write is shorter than the buffer.
C14_Witness ==
  /\ task[1].pc = "write" /\ task[1].n = 1 /\ task[1].size = 0
  /\ Len(obs[1].written) = ChunkCap
  /\ obs[1].size0 = ChunkCap + 1

\* C15: a write called with verifyChecksum false leaves the checksum of the
\* record as it was and starts no verification; a write called with
\* verifyChecksum true has fed the checksum, in order, the chunks dest.write
\* has taken and the chunk it is about to take, each cut to its length, and
\* nothing else.
C15_FeedWhenRequested ==
  \A r \in Recs :
    /\ Writing(r) =>
         /\ recs[r].checksum =
              IF obs[r].armed
                THEN obs[r].sum0 \o obs[r].written \o Pending(r)
                ELSE obs[r].sum0
         /\ ~obs[r].armed => task[r].pc \notin {"vopen", "viter"}
    /\ WriteReturned(r) =>
         /\ recs[r].checksum =
              IF obs[r].armed THEN obs[r].sum0 \o obs[r].written
                              ELSE obs[r].sum0
         /\ ~obs[r].armed => ret[r].verified = "none"

\* C15 happens: with verification requested, the second chunk, shorter than
\* the buffer, is in the checksum and not yet in the file.
C15_Witness ==
  /\ task[1].pc = "write" /\ task[1].n = 1
  /\ obs[1].armed
  /\ Len(obs[1].written) = ChunkCap
  /\ Len(recs[1].checksum) = ChunkCap + 1

\* The byte a write of class cls with argument arg puts at offset i (from 0)
\* of the file when the closure it installed is the one that fills its chunks.
OwnByte(cls, arg, i) ==
  IF cls = "Byte"
    THEN ByteGetValues(arg, NewUint8Array(ChunkCap))[(i % ChunkCap) + 1]
    ELSE ByteArrayGetValues(arg, NewUint8Array(ChunkCap))[(i % ChunkCap) + 1]

\* C16 (as claimed): when Byte or ByteArray writes on two different files are
\* in flight together, each file ends filled by the argument of its own call.
C16_OwnValue ==
  \A r \in Recs :
    (WriteReturned(r) /\ obs[r].cls \in {"Byte", "ByteArray"}) =>
      \A i \in 1..Len(FileOf(r).data) :
        FileOf(r).data[i] = OwnByte(obs[r].cls, obs[r].arg, i - 1)

\* The outcome of comparing the digest of the record with the digest of the
\* bytes of the file.
Compared(fileData, data) ==
  IF Sha256Hex(fileData.checksum) = Sha256Hex(Sha256Update(NewSha256, data))
    THEN "undefined" ELSE "Invalid checksum"

\* C17: from the call of verify to its return no step changes the record
\* (path, size, verifyChecksum, checksum), and the value verify returns is
\* the comparison of the checksum of the record with the digest of the bytes
\* the file holds, computed from nothing else; so verify repeated on a file
\* nobody modifies returns the same value.
C17_VerifyReadOnly ==
  [][\A r \in Recs :
       /\ (\/ task[r].pc \in {"vopen", "viter"}
           \/ (task[r].pc = "idle" /\ task'[r].pc = "vopen"))
            => recs'[r] = recs[r]
       /\ (task[r].pc = "viter" /\ task'[r].pc = "idle") =>
            LET outcome == IF task[r].op = "verify" THEN ret'[r].val
                                                    ELSE ret'[r].verified
            IN outcome = Compared(recs[r], FileOf(r).data)]_vars

\* C17 happens: verify was called twice in a row on a file that does not match
\* the checksum of the record, and the second call has returned.
C17_Witness ==
  /\ task[1].pc = "idle" /\ ret[1].op = "verify"
  /\ ret[1].val = "Invalid checksum"
  /\ LastCalls(1, <<"write", "verify", "verify">>)

\* What C18 asks of the times `t` of an object after the call noted in `out`.
TimesSet(out, t) ==
  /\ (out.op = "changeTimestamps" /\ out.val = "undefined") =>
       /\ t.atime = t.mtime
       /\ Min(out.date1, out.date2) <= t.mtime
       /\ t.mtime <= Max(out.date1, out.date2)
       /\ out.date1 = out.date2 => t.mtime = out.date1
  /\ (out.op = "resetTimestamps" /\ out.val = "undefined") =>
       (t.atime = 0 /\ t.mtime = 0)

\* C18: once changeTimestamps has returned, the access time and the
\* modification time of the object are one instant that lies between date1
\* and date2, whichever is the smaller, and is that instant when they are
\* equal; once resetTimestamps has returned, both are 0. For files and for
\* directories.
C18_Timestamps ==
  /\ \A r \in Recs :
       (task[r].pc = "idle" /\ recs[r] # NoRec) =>
         TimesSet(ret[r], times[recs[r].path])
  /\ drec # NoRec => TimesSet(dret, times[drec.path])

\* C18 happens: the times of the file were drawn between an instant before
\* the epoch and the epoch, date1 the later of the two, and came out strictly
\* between them; the times of the directory were reset.
C18_Witness ==
  /\ task[1].pc = "idle" /\ ret[1].op = "changeTimestamps"
  /\ ret[1].val = "undefined"
  /\ ret[1].date1 = 0 /\ ret[1].date2 = -3
  /\ times[recs[1].path] = [atime |-> -2, mtime |-> -2]
  /\ dret.op = "resetTimestamps" /\ dret.val = "undefined"
  /\ times[drec.path] = [atime |-> 0, mtime |-> 0]

\* C19: while no other process touches the file, the size field of a record
\* is the byte length of the file its path names, after any sequence of
\* init, verifyNext, write, verify, rename and truncate and at every step of
\* these calls.
C19_SizeIsLength ==
  \A r \in Recs :
    recs[r] # NoRec =>
      /\ FileOf(r).kind = "file"
      /\ recs[r].size = Len(FileOf(r).data)

\* C19 happens: the file was renamed, truncated to a length that is not 0,
\* then overwritten to its end.
C19_Witness ==
  /\ WriteReturned(1)
  /\ LastCalls(1, <<"rename", "truncate", "write">>)
  /\ recs[1].path \in UuidNames
  /\ recs[1].size > 0
  /\ Len(obs[1].written) = recs[1].size

\* C20: when a write with Zero or One that follows another write on the same
\* record has returned, the file has the byte length it had before and every
\* byte of it is the byte of this last pattern; when a truncate that follows
\* a write has returned, the size it started from is the byte length the file
\* had at that write, and the new size is at least a quarter of it, rounded
\* down.
C20_EveryPassWhole ==
  \A r \in Recs :
    /\ (WriteReturned(r) /\ LastCalls(r, <<"write", "write">>)) =>
         /\ Len(obs[r].written) = obs[r].len0
         /\ Len(FileOf(r).data) = obs[r].len0
         /\ \A i \in 1..Len(FileOf(r).data) :
              FileOf(r).data[i] = PatternByte(obs[r].cls, obs[r].arg)
    /\ (task[r].pc = "idle" /\ ret[r].op = "truncate"
          /\ ret[r].val = "undefined" /\ LastCalls(r, <<"write", "truncate">>)) =>
         /\ ret[r].originalSize = obs[r].len0
         /\ ret[r].newSize >= obs[r].len0 \div 4
         /\ Len(FileOf(r).data) = ret[r].newSize

\* C20 happens: a file of several chunks was overwritten with zeros, then
\* with ones, then truncated: the truncate started from the whole length and
\* what it left of the file is ones.
C20_Witness ==
  /\ task[1].pc = "idle" /\ ret[1].op = "truncate" /\ ret[1].val = "undefined"
  /\ LastCalls(1, <<"write", "write", "truncate">>)
  /\ obs[1].prev = "Zero" /\ obs[1].cls = "One"
  /\ obs[1].written = [i \in 1..MaxSize |-> 255]
  /\ ret[1].originalSize = MaxSize
  /\ ret[1].newSize > 1
  /\ FileOf(1).data = [i \in 1..ret[1].newSize |-> 255]

====
